---- MODULE Spec2Model ----
(***************************************************************************)
(* A model of the expression-graph kernel of                               *)
(* source/wip/data-structures-1/demonstration.py and of the user-facing    *)
(* wrapper of userexpression.py: the interning tables, the topological     *)
(* linearizer, evaluation_form / rebuild / evaluate, the forward and       *)
(* reverse differentiation algorithms, the LLVM emitter and the operators  *)
(* of UserExpression.                                                      *)
(*                                                                         *)
(* Seven specifications share the module:                                  *)
(*   Spec         the interning tables under single-threaded use           *)
(*   SpecThreads  the same tables with constructions of two threads        *)
(*                interleaved at the table accesses                        *)
(*   SpecLinear   topological_sort run step by step on an input DAG, then  *)
(*                evaluation_form and rebuild                              *)
(*   SpecDiff     _diff and _diff_reverse applied to an input expression   *)
(*   SpecReverse  _diff_reverse with its reversed loop run step by step    *)
(*   SpecEval     evaluation_form and evaluate with each operator table,   *)
(*                and to_llvm_f64                                          *)
(*   SpecUser     sequences of arithmetic operators on UserExpression      *)
(***************************************************************************)
EXTENDS Integers, Sequences, FiniteSets, TLC

VARIABLES
    \* --- the linearizer run (SpecLinear)
    expression,     \* the argument of topological_sort
    seen,           \* topological_sort: seen
    expressions,    \* topological_sort: expressions
    stack,          \* topological_sort: stack of <<top, children>>
    lpc,            \* "sorting" | "sorted" | "formed" | "rebuilt"
    form,           \* result of evaluation_form(expression, {})
    rebuilt,        \* result of rebuild(*form)
    \* --- the differentiation run (SpecDiff)
    dexpr,          \* the expression differentiated
    sym,            \* the symbol differentiated against
    dpc,            \* "input" | "forward" | "done"
    fwd,            \* result of _diff(dexpr, sym): an expression or an Error
    rev,            \* result of _diff_reverse(dexpr, sym)
    \* --- the reverse pass of _diff_reverse, one operation per step (SpecReverse)
    rdiff_terms,    \* _diff_reverse: diff_terms, one list of adjoint terms per slot
    remaining,      \* number of operations the reversed loop has not processed yet
    \* --- evaluation with an operator table (SpecEval)
    subject,        \* the expression argument of evaluation_form / evaluate / to_llvm_f64
    optable,        \* the operator table passed to evaluation_form and evaluate
    symargs,        \* the parameter list passed to to_llvm_f64
    epc,            \* "input" | "formed" | "evaluated" | "compiled"
    eform,          \* result of evaluation_form(subject, optable)
    evaluated,      \* result of evaluate(subject, optable, {})
    module_code,    \* result of to_llvm_f64(symargs, subject)
    \* --- arithmetic on UserExpression objects (SpecUser)
    uval,           \* the value the user's expression has been evaluated to so far
    usteps,         \* number of operators applied
    \* --- the interning tables (Spec, SpecThreads)
    objs,           \* every Expression object created so far, by object id
    alive,          \* ids of the objects not yet deallocated
    refs,           \* ids of the objects an external owner references
    all_atoms,      \* the WeakValueDictionary all_atoms: entries [key, obj]
    all_expressions,\* the WeakValueDictionary all_expressions: entries [key, obj]
    pc,             \* per thread: "idle", or "insert" after a lookup that missed
    req             \* per thread: the object its pending __new__ is creating

linearVars == <<expression, seen, expressions, stack, lpc, form, rebuilt>>

diffVars == <<dexpr, sym, dpc, fwd, rev>>

evalVars == <<subject, optable, symargs, epc, eform, evaluated, module_code>>

reverseVars == <<rdiff_terms, remaining>>

userVars == <<uval, usteps>>

pureVars == <<linearVars, diffVars, reverseVars, evalVars, userVars>>

heapVars == <<objs, alive, refs, all_atoms, all_expressions, pc, req>>

vars == <<linearVars, diffVars, reverseVars, evalVars, userVars, heapVars>>

-----------------------------------------------------------------------------
(* Bounds *)

\* largest number of nodes (counted with multiplicity) of an input of SpecLinear
MaxSize == 5
\* largest length of a children tuple (head and args) of an input of SpecLinear
MaxChildren == 3
\* largest number of nodes (heads not counted) of an input of SpecDiff
MaxDiffSize == 3
\* largest number of args of a compound of an input of SpecDiff
MaxArgs == 2
\* largest number of Expression objects allocated in a run of the tables
MaxObjects == 3
\* largest length of the children tuple of a TreeExpression request
MaxKeyLen == 2
\* largest number of operators applied in a run of SpecUser
MaxUserOps == 2

-----------------------------------------------------------------------------
(* Expressions.  An interned expression is determined by its key, so an    *)
(* expression is modelled by its structure: an atom is <<atom_type, value>>*)
(* and a compound is <<"Tree", children>>, children = <<head>> \o args.    *)
(* Identity (is, ==, hash) of interned objects is equality of structure.   *)

AtomExpression(atom_type, value) == <<atom_type, value>>

TreeExpression(children) == <<"Tree", children>>

IsTree(e) == e[1] = "Tree"

\* expression.children
Children(e) == IF IsTree(e) THEN e[2] ELSE <<>>

\* expression.args
Args(e) == IF IsTree(e) THEN Tail(e[2]) ELSE <<>>

\* expression.head: the first child of a compound, the AtomType of an atom
HeadOf(e) == IF IsTree(e) THEN e[2][1] ELSE <<"AtomType", e[1]>>

\* Expression.__call__(*args): self(*args) is TreeExpression(self, *args)
Call(func, args) == TreeExpression(<<func>> \o args)

\* Python's None
None == <<"None">>

\* an exception raised out of a function
Error(kind) == <<"Error", kind>>

IsError(r) == r[1] = "Error"

Reverse(s) == [i \in 1..Len(s) |-> s[Len(s) + 1 - i]]

Range(s) == {s[i] : i \in 1..Len(s)}

\* position (1-based) of the first occurrence of e in s, 0 when absent
IndexOf(s, e) ==
    LET hits == {i \in 1..Len(s) : s[i] = e}
    IN IF hits = {} THEN 0 ELSE CHOOSE i \in hits : \A j \in hits : i <= j

Function(name) == AtomExpression("Function", name)
Symbol(name) == AtomExpression("Symbol", name)
Integer(n) == AtomExpression("Integer", n)

\* the tables are not part of the runs of SpecLinear and SpecDiff
HeapOff ==
    /\ objs = <<>> /\ alive = {} /\ refs = {}
    /\ all_atoms = {} /\ all_expressions = {}
    /\ pc = <<>> /\ req = <<>>

\* no UserExpression arithmetic is part of the other runs
UserOff == uval = None /\ usteps = 0

\* Python's empty dict {}: a dict is a function from its keys to its values
EmptyDict == <<>>

\* evaluation with an operator table is not part of the other runs
EvalOff ==
    /\ subject = None /\ optable = EmptyDict /\ symargs = <<>>
    /\ epc = "off"
    /\ eform = [err |-> "none", atoms |-> <<>>, operations |-> <<>>]
    /\ evaluated = None /\ module_code = None
    /\ rdiff_terms = <<>> /\ remaining = 0

-----------------------------------------------------------------------------
(* topological_sort *)

\* list(expression.children)[::-1]
ChildListForward(e) == Children(e)
ChildList(e) == Reverse(Children(e))

\* child not in seen
NotSeenNever(child, seenset) == TRUE
NotSeen(child, seenset) == child \notin seenset

\* The inner "while children" loop: pops children from the end until one is
\* not in seen; found is <<child>>, or <<>> when the list ran out (the else).
RECURSIVE PopChildren(_, _)
PopChildren(children, seenset) ==
    IF children = <<>> THEN [children |-> <<>>, found |-> <<>>]
    ELSE LET child == children[Len(children)]
             rest == SubSeq(children, 1, Len(children) - 1)
         IN IF NotSeen(child, seenset)
            THEN [children |-> rest, found |-> <<child>>]
            ELSE PopChildren(rest, seenset)

\* The state of topological_sort before its loop.
TopoInit(e) ==
    [seen |-> {}, expressions |-> <<>>, stack |-> << <<e, ChildList(e)>> >>]

\* One iteration of "while stack".
TopoStepFn(st) ==
    LET n == Len(st.stack)
        top == st.stack[n][1]
        popped == PopChildren(st.stack[n][2], st.seen)
    IN IF popped.found # <<>>
       THEN LET child == popped.found[1]
            IN [seen |-> st.seen \cup {child},
                expressions |-> st.expressions,
                stack |-> Append([st.stack EXCEPT ![n] = <<top, popped.children>>],
                                 <<child, ChildList(child)>>)]
       ELSE [seen |-> st.seen,
             expressions |-> Append(st.expressions, top),
             stack |-> SubSeq(st.stack, 1, n - 1)]

RECURSIVE TopoRun(_)
TopoRun(st) == IF st.stack = <<>> THEN st.expressions ELSE TopoRun(TopoStepFn(st))

topological_sort(e) == TopoRun(TopoInit(e))

-----------------------------------------------------------------------------
(* evaluation_form and rebuild *)

\* indices[e]: the slot of e, atoms first and then the compounds already
\* listed (0-based as in the source); -1 stands for a missing key
SlotOfCompoundFromZero(atoms, compound, e) ==
    IF IndexOf(atoms, e) # 0 THEN IndexOf(atoms, e) - 1
    ELSE IF IndexOf(compound, e) # 0 THEN IndexOf(compound, e) - 1
    ELSE -1
SlotOf(atoms, compound, e) ==
    IF IndexOf(atoms, e) # 0 THEN IndexOf(atoms, e) - 1
    ELSE IF IndexOf(compound, e) # 0 THEN Len(atoms) + IndexOf(compound, e) - 1
    ELSE -1

\* A value of an operator table that is not an Expression: a Python callable
Builtin(name) == <<"builtin", name>>

\* a native Python float that is not wrapped in an atom
NativeFloat(n) == <<"float", n>>

\* operator(expr.value) for the callables the tables map atom types to
ApplyAtom(operator, v) ==
    IF operator = Builtin("float") THEN NativeFloat(v)
    ELSE IF operator = Builtin("op1") THEN <<"int", 1>>
    ELSE Error("TypeError")

\* evaluation_form(expression, operators); operators is a dict keyed by
\* expressions (heads) and by atom types
evaluation_form(e, operators) ==
    LET subexpressions == topological_sort(e)
        kept == SelectSeq(subexpressions, LAMBDA s : s \notin DOMAIN operators)
        atoms == SelectSeq(kept, LAMBDA s : Children(s) = <<>>)
        compound == SelectSeq(kept, LAMBDA s : Children(s) # <<>>)
        mapped == [n \in 1..Len(atoms) |->
                      IF HeadOf(atoms[n]) \in DOMAIN operators
                      THEN ApplyAtom(operators[HeadOf(atoms[n])], atoms[n][2])
                      ELSE atoms[n]]
        ArgIndices(k) ==
            [j \in 1..Len(Args(compound[k])) |->
                SlotOf(atoms, SubSeq(compound, 1, k - 1), Args(compound[k])[j])]
        FunctionOf(k) ==
            IF HeadOf(compound[k]) \in DOMAIN operators
            THEN operators[HeadOf(compound[k])]
            ELSE HeadOf(compound[k])
        operations ==
            [k \in 1..Len(compound) |-> <<FunctionOf(k), ArgIndices(k)>>]
    IN IF \E n \in 1..Len(mapped) : IsError(mapped[n])
       THEN [err |-> "TypeError", atoms |-> <<>>, operations |-> <<>>]
       ELSE IF \E k \in 1..Len(compound) : -1 \in Range(ArgIndices(k))
       THEN [err |-> "KeyError", atoms |-> <<>>, operations |-> <<>>]
       ELSE [err |-> "", atoms |-> mapped, operations |-> operations]

\* args = [stack[i] for i in indices] in rebuild, where indices is one element
\* of the operations list, the pair (function, arg_indices): its first
\* component is an Expression and not an integer, so the subscript raises.
\* err is "" when the comprehension completes.
RebuildArgs(stk, indices) ==
    IF Len(indices) = 0 THEN [err |-> "", args |-> <<>>]
    ELSE [err |-> "TypeError", args |-> <<>>]

RECURSIVE RebuildLoop(_, _)
RebuildLoop(stk, evaluation) ==
    IF evaluation = <<>> THEN [err |-> "", stack |-> stk]
    ELSE LET r == RebuildArgs(stk, evaluation[1])
         IN IF r.err # "" THEN [err |-> r.err, stack |-> stk]
            ELSE RebuildLoop(Append(stk, TreeExpression(r.args)), Tail(evaluation))

rebuild(atoms, evaluation) ==
    LET r == RebuildLoop(atoms, evaluation)
    IN IF r.err # "" THEN Error(r.err)
       ELSE IF r.stack = <<>> THEN Error("IndexError")
       ELSE r.stack[Len(r.stack)]

-----------------------------------------------------------------------------
(* SpecLinear: topological_sort, one loop iteration per step, on every DAG  *)
(* of the input set; then evaluation_form(expression, {}) and rebuild.      *)

f == Function("f")
x == Symbol("x")
y == Symbol("y")

LinearAtoms == {f, x, y}

\* the expressions of exactly n nodes over LinearAtoms, any expression a head
RECURSIVE LinearOfSize(_), LinearSeqs(_, _)
LinearOfSize(n) ==
    IF n = 1 THEN LinearAtoms
    ELSE {TreeExpression(cs) : cs \in UNION {LinearSeqs(k, n - 1) : k \in 1..MaxChildren}}
LinearSeqs(k, total) ==
    IF k = 0 THEN (IF total = 0 THEN {<<>>} ELSE {})
    ELSE UNION {{<<e>> \o rest : e \in LinearOfSize(s), rest \in LinearSeqs(k - 1, total - s)} :
                    s \in 1..(total - (k - 1))}

\* the expression of the doctest of topological_sort: f(f(x, y), f(f(x)))
DocExample ==
    Call(f, <<Call(f, <<x, y>>), Call(f, <<Call(f, <<x>>)>>)>>)

LinearInputs == UNION {LinearOfSize(n) : n \in 1..MaxSize} \cup {DocExample}

LinearInit ==
    /\ expression \in LinearInputs
    /\ seen = TopoInit(expression).seen
    /\ expressions = TopoInit(expression).expressions
    /\ stack = TopoInit(expression).stack
    /\ lpc = "sorting"
    /\ form = [err |-> "none", atoms |-> <<>>, operations |-> <<>>]
    /\ rebuilt = None
    /\ dexpr = None /\ sym = None /\ dpc = "off" /\ fwd = None /\ rev = None
    /\ HeapOff
    /\ UserOff
    /\ EvalOff

TopoStep ==
    /\ lpc = "sorting"
    /\ stack # <<>>
    /\ LET st == TopoStepFn([seen |-> seen, expressions |-> expressions, stack |-> stack])
       IN /\ seen' = st.seen
          /\ expressions' = st.expressions
          /\ stack' = st.stack
    /\ UNCHANGED <<expression, lpc, form, rebuilt, diffVars, reverseVars, evalVars, userVars, heapVars>>

TopoReturn ==
    /\ lpc = "sorting"
    /\ stack = <<>>
    /\ lpc' = "sorted"
    /\ UNCHANGED <<expression, seen, expressions, stack, form, rebuilt, diffVars, reverseVars, evalVars, userVars, heapVars>>

EvaluationForm ==
    /\ lpc = "sorted"
    /\ form' = evaluation_form(expression, EmptyDict)
    /\ lpc' = "formed"
    /\ UNCHANGED <<expression, seen, expressions, stack, rebuilt, diffVars, reverseVars, evalVars, userVars, heapVars>>

Rebuild ==
    /\ lpc = "formed"
    /\ form.err = ""
    /\ rebuilt' = rebuild(form.atoms, form.operations)
    /\ lpc' = "rebuilt"
    /\ UNCHANGED <<expression, seen, expressions, stack, form, diffVars, reverseVars, evalVars, userVars, heapVars>>

LinearNext == TopoStep \/ TopoReturn \/ EvaluationForm \/ Rebuild

\* the interpreter keeps executing the loop of topological_sort once called
SpecLinear ==
    LinearInit /\ [][LinearNext]_vars /\ WF_vars(TopoStep) /\ WF_vars(TopoReturn)

-----------------------------------------------------------------------------
(* Claims on the linearizer and on rebuild (SpecLinear) *)

\* the nodes reachable from e through children, e included
RECURSIVE Subexpressions(_)
Subexpressions(e) ==
    {e} \cup UNION {Subexpressions(Children(e)[i]) : i \in 1..Len(Children(e))}

\* the recursive depth-first postorder: children left to right (head first),
\* nodes already seen skipped, a node listed after its children
RECURSIVE PostVisit(_, _), PostChildren(_, _)
PostVisit(e, st) ==
    LET after == PostChildren(Children(e), st)
    IN [seen |-> after.seen, out |-> Append(after.out, e)]
PostChildren(cs, st) ==
    IF cs = <<>> THEN st
    ELSE IF cs[1] \in st.seen THEN PostChildren(Tail(cs), st)
    ELSE PostChildren(Tail(cs),
                      PostVisit(cs[1], [seen |-> st.seen \cup {cs[1]}, out |-> st.out]))

PostOrder(e) == PostVisit(e, [seen |-> {}, out |-> <<>>]).out

\* the list the doctest of topological_sort expects for DocExample
DocExpected ==
    <<f, x, y, Call(f, <<x, y>>), Call(f, <<x>>), Call(f, <<Call(f, <<x>>)>>), DocExample>>

\* C3: rebuild(*evaluation_form(e, {})) completes and returns e itself, for
\* every expression DAG e, atoms and compounds alike.
RebuildIsLeftInverse ==
    lpc = "rebuilt" => rebuilt = expression

\* the returned list holds every node reachable from the root exactly once,
\* every node after all of its children, and the root last
TopoSortValid ==
    /\ Range(expressions) = Subexpressions(expression)
    /\ Len(expressions) = Cardinality(Subexpressions(expression))
    /\ \A i \in 1..Len(expressions) :
          \A c \in Range(Children(expressions[i])) :
             \E j \in 1..(i - 1) : expressions[j] = c
    /\ expressions[Len(expressions)] = expression

\* C4: topological_sort(root) terminates, and its list holds every node
\* reachable from root exactly once, each strictly after all of its children,
\* with root last, shared sub-DAGs included.
TopoSortTerminatesValid ==
    /\ <>(lpc = "sorted")
    /\ [](lpc # "sorting" => TopoSortValid)

\* a finished sort of a DAG in which a compound node is shared: it is the
\* child in two child slots
TopoSortSharedWitness ==
    /\ lpc = "sorted"
    /\ \E s \in Subexpressions(expression) :
          /\ IsTree(s)
          /\ Cardinality({pi \in Subexpressions(expression) \X (1..MaxChildren) :
                              /\ pi[2] <= Len(Children(pi[1]))
                              /\ Children(pi[1])[pi[2]] = s}) >= 2

\* C5: the work-stack loop returns exactly the recursive depth-first
\* postorder (children left to right, head first, seen nodes skipped); for
\* f(f(x, y), f(f(x))) that is the list of the doctest.
TopoSortIsPostOrder ==
    lpc # "sorting" =>
        /\ expressions = PostOrder(expression)
        /\ expression = DocExample => expressions = DocExpected

\* the doctest's expression has been sorted
TopoSortDocWitness ==
    lpc = "sorted" /\ expression = DocExample

-----------------------------------------------------------------------------
(* The basic expression types and the chain-rule table *)

Add == Function("Add")
Mul == Function("Mul")
Pow == Function("Pow")
sin == Function("sin")
cos == Function("cos")

one == Integer(1)
negone == Integer(-1)
zero == Integer(0)

\* a native Python int that is not wrapped in an atom
NativeInt(n) == <<"int", n>>

\* Expression.__neg__: Mul(Integer(-1), self)
Neg(e) == Call(Mul, <<Integer(-1), e>>)

\* Expression.__sub__: Add(self, Mul(Integer(-1), other))
Sub(a, b) == Call(Add, <<a, Call(Mul, <<Integer(-1), b>>)>>)

\* a table that answers every key (func, n) with the zero atom
PartialDerivativeOrZero(func, n, args) == [err |-> "", val |-> zero]

\* derivatives[(func, n)](*args): err is "KeyError" when the table has no
\* entry (func, n), "TypeError" when the entry does not take Len(args) arguments
PartialDerivative(func, n, args) ==
    IF func = sin /\ n = 0
    THEN [err |-> "", val |-> Call(cos, args)]
    ELSE IF func = cos /\ n = 0
    THEN IF Len(args) # 1 THEN [err |-> "TypeError", val |-> None]
         ELSE [err |-> "", val |-> Neg(Call(sin, <<args[1]>>))]
    ELSE IF func = Pow /\ n = 0
    THEN IF Len(args) # 2 THEN [err |-> "TypeError", val |-> None]
         ELSE [err |-> "", val |-> Call(Pow, <<args[1], Sub(args[2], NativeInt(1))>>)]
    ELSE [err |-> "KeyError", val |-> None]

-----------------------------------------------------------------------------
(* _diff: forward accumulation *)

\* [stack[i] for i in indices], indices 0-based
Gather(stk, indices) == [j \in 1..Len(indices) |-> stk[indices[j] + 1]]

\* one if expr == sym else zero
SeedSwapped(expr, s) == IF expr = s THEN zero ELSE one
Seed(expr, s) == IF expr = s THEN one ELSE zero

\* set(diff_args) == {zero}
AllZeroNever(diff_args) == FALSE
AllZero(diff_args) == Range(diff_args) = {zero}

\* [da for da in diff_args if da != zero]
AddTerms(diff_args) == SelectSeq(diff_args, LAMBDA da : da # zero)

\* the Mul branch: Mul(*args[:n], diff_arg, *args[n+1:]) for each n with
\* diff_arg != zero (n is 1-based here)
RECURSIVE MulTerms(_, _, _)
MulTerms(args, diff_args, n) ==
    IF n > Len(diff_args) THEN <<>>
    ELSE IF diff_args[n] # zero
    THEN <<Call(Mul, SubSeq(args, 1, n - 1) \o <<diff_args[n]>>
                        \o SubSeq(args, n + 1, Len(args)))>>
         \o MulTerms(args, diff_args, n + 1)
    ELSE MulTerms(args, diff_args, n + 1)

\* the Pow branch: the assert on the exponent's derivative, the unpacking of
\* base and exp, and the single term
PowTermsChained(args, diff_args) ==
    IF Len(diff_args) < 2 THEN [err |-> "IndexError", terms |-> <<>>]
    ELSE IF diff_args[2] # zero THEN [err |-> "AssertionError", terms |-> <<>>]
    ELSE IF Len(args) # 2 THEN [err |-> "ValueError", terms |-> <<>>]
    ELSE [err |-> "",
          terms |-> <<Call(Mul, <<args[2],
                                  Call(Pow, <<args[1], Call(Add, <<args[2], negone>>)>>),
                                  diff_args[1]>>)>>]
PowTerms(args, diff_args) ==
    IF Len(diff_args) < 2 THEN [err |-> "IndexError", terms |-> <<>>]
    ELSE IF diff_args[2] # zero THEN [err |-> "AssertionError", terms |-> <<>>]
    ELSE IF Len(args) # 2 THEN [err |-> "ValueError", terms |-> <<>>]
    ELSE [err |-> "",
          terms |-> <<Call(Mul, <<args[2],
                                  Call(Pow, <<args[1], Call(Add, <<args[2], negone>>)>>)>>)>>]

\* the branch of the named functions: for each n with diff_arg != zero the
\* term derivatives[(func, n)](*args), times diff_arg unless that is one
RECURSIVE NamedTerms(_, _, _, _)
NamedTerms(func, args, diff_args, n) ==
    IF n > Len(diff_args) THEN [err |-> "", terms |-> <<>>]
    ELSE IF diff_args[n] = zero THEN NamedTerms(func, args, diff_args, n + 1)
    ELSE LET pd == PartialDerivative(func, n - 1, args)
             diff_term == IF diff_args[n] # one
                          THEN Call(Mul, <<pd.val, diff_args[n]>>)
                          ELSE pd.val
             rest == NamedTerms(func, args, diff_args, n + 1)
         IN IF pd.err # "" THEN [err |-> pd.err, terms |-> <<>>]
            ELSE IF rest.err # "" THEN rest
            ELSE [err |-> "", terms |-> <<diff_term>> \o rest.terms]

\* diff_terms of one operation
DiffTerms(func, args, diff_args) ==
    IF AllZero(diff_args) THEN [err |-> "", terms |-> <<>>]
    ELSE IF func = Add THEN [err |-> "", terms |-> AddTerms(diff_args)]
    ELSE IF func = Mul THEN [err |-> "", terms |-> MulTerms(args, diff_args, 1)]
    ELSE IF func = Pow THEN PowTerms(args, diff_args)
    ELSE NamedTerms(func, args, diff_args, 1)

\* zero, the single term, or Add(*diff_terms)
Combine(diff_terms) ==
    IF diff_terms = <<>> THEN zero
    ELSE IF Len(diff_terms) = 1 THEN diff_terms[1]
    ELSE Call(Add, diff_terms)

\* the loop over the operations; st = [err, stack, diff_stack]
RECURSIVE DiffLoop(_, _)
DiffLoop(st, operations) ==
    IF operations = <<>> \/ st.err # "" THEN st
    ELSE LET func == operations[1][1]
             indices == operations[1][2]
             args == Gather(st.stack, indices)
             diff_args == Gather(st.diff_stack, indices)
             t == DiffTerms(func, args, diff_args)
         IN IF t.err # "" THEN [st EXCEPT !.err = t.err]
            ELSE DiffLoop([err |-> "",
                           stack |-> Append(st.stack, Call(func, args)),
                           diff_stack |-> Append(st.diff_stack, Combine(t.terms))],
                          Tail(operations))

_diff(e, s) ==
    LET ef == evaluation_form(e, EmptyDict)
        diff_stack == [n \in 1..Len(ef.atoms) |-> Seed(ef.atoms[n], s)]
        st == DiffLoop([err |-> ef.err, stack |-> ef.atoms, diff_stack |-> diff_stack],
                       ef.operations)
    IN IF st.err # "" THEN Error(st.err)
       ELSE st.diff_stack[Len(st.diff_stack)]

-----------------------------------------------------------------------------
(* _diff_reverse: reverse accumulation *)

\* the forward pass: stack.append(func(*args)) for every operation
RECURSIVE ForwardPass(_, _)
ForwardPass(stk, operations) ==
    IF operations = <<>> THEN stk
    ELSE ForwardPass(
            Append(stk, Call(operations[1][1], Gather(stk, operations[1][2]))),
            Tail(operations))

\* diff_terms[i].append(t), i 0-based
AppendTermNot(diff_terms, i, t) == diff_terms
AppendTerm(diff_terms, i, t) ==
    [diff_terms EXCEPT ![i + 1] = Append(@, t)]

\* the Add branch: for i in indices: diff_terms[i].append(ddf)
RECURSIVE ReverseAdd(_, _, _)
ReverseAdd(diff_terms, indices, ddf) ==
    IF indices = <<>> THEN diff_terms
    ELSE ReverseAdd(AppendTerm(diff_terms, indices[1], ddf), Tail(indices), ddf)

\* [arg for arg in otherargs if arg != one]
DropOnesKeep(otherargs) == otherargs
DropOnes(otherargs) == SelectSeq(otherargs, LAMBDA arg : arg # one)

\* the adjoint a Mul operation passes to its n-th argument (n 1-based)
MulAdjoint(args, n, ddf) ==
    LET otherargs == DropOnes(SubSeq(args, 1, n - 1) \o SubSeq(args, n + 1, Len(args))
                              \o <<ddf>>)
    IN IF Len(otherargs) = 0 THEN one
       ELSE IF Len(otherargs) = 1 THEN otherargs[1]
       ELSE Call(Mul, otherargs)

\* the Mul branch
RECURSIVE ReverseMul(_, _, _, _, _)
ReverseMul(diff_terms, indices, args, ddf, n) ==
    IF n > Len(indices) THEN diff_terms
    ELSE ReverseMul(AppendTerm(diff_terms, indices[n], MulAdjoint(args, n, ddf)),
                    indices, args, ddf, n + 1)

\* the branch of every other function (Pow included): the chain-rule table
\* is read for every argument position
RECURSIVE ReverseNamed(_, _, _, _, _, _)
ReverseNamed(diff_terms, func, indices, args, ddf, n) ==
    IF n > Len(indices) THEN [err |-> "", diff_terms |-> diff_terms]
    ELSE LET pd == PartialDerivative(func, n - 1, args)
             ddfi == IF ddf = one THEN pd.val ELSE Call(Mul, <<ddf, pd.val>>)
         IN IF pd.err # "" THEN [err |-> pd.err, diff_terms |-> diff_terms]
            ELSE ReverseNamed(AppendTerm(diff_terms, indices[n], ddfi),
                              func, indices, args, ddf, n + 1)

\* the single term, or Add(*terms)
SumTerms(terms) == IF Len(terms) = 1 THEN terms[1] ELSE Call(Add, terms)

\* one iteration of the reversed loop, for operation k (1-based): pops the
\* last list of diff_terms and distributes its sum to the lists of the
\* operation's arguments
ReverseStepFn(diff_terms, stk, operations, k) ==
    LET func == operations[k][1]
        indices == operations[k][2]
        args == Gather(stk, indices)
        terms == diff_terms[Len(diff_terms)]
        popped == SubSeq(diff_terms, 1, Len(diff_terms) - 1)
        ddf == SumTerms(terms)
    IN IF func = Add
       THEN [err |-> "", diff_terms |-> ReverseAdd(popped, indices, ddf)]
       ELSE IF func = Mul
       THEN [err |-> "", diff_terms |-> ReverseMul(popped, indices, args, ddf, 1)]
       ELSE ReverseNamed(popped, func, indices, args, ddf, 1)

\* the reverse pass: operations k, k-1, .. 1
RECURSIVE ReversePass(_, _, _, _)
ReversePass(diff_terms, stk, operations, k) ==
    IF k = 0 THEN [err |-> "", diff_terms |-> diff_terms]
    ELSE LET r == ReverseStepFn(diff_terms, stk, operations, k)
         IN IF r.err # "" THEN r
            ELSE ReversePass(r.diff_terms, stk, operations, k - 1)

\* diff_terms = [[] for _ in range(nterms)]; diff_terms[-1] = [one]
SeedTerms(nterms) == [i \in 1..nterms |-> IF i = nterms THEN <<one>> ELSE <<>>]

_diff_reverse(e, s) ==
    LET ef == evaluation_form(e, EmptyDict)
        sym_index == IndexOf(ef.atoms, s) - 1
        stk == ForwardPass(ef.atoms, ef.operations)
        nterms == Len(stk)
        r == ReversePass(SeedTerms(nterms), stk, ef.operations, Len(ef.operations))
    IN IF ef.err # "" THEN Error(ef.err)
       ELSE IF sym_index < 0 THEN zero
       ELSE IF r.err # "" THEN Error(r.err)
       ELSE SumTerms(r.diff_terms[sym_index + 1])

\* diff(expr, sym, ntimes, reverse) with ntimes = 1
diff(e, s, reverse) == IF reverse THEN _diff_reverse(e, s) ELSE _diff(e, s)

-----------------------------------------------------------------------------
(* SpecDiff: _diff and then _diff_reverse applied to every expression of    *)
(* the input set and every symbol.                                         *)

two == Integer(2)

DiffAtoms == {x, y, one, two}
DiffHeads == {Add, Mul, Pow, sin, cos}
DiffSymbols == {x, y}

\* the expressions of exactly n nodes (heads not counted): atoms, and calls
\* of a head on 0..MaxArgs arguments
RECURSIVE DiffOfSize(_), DiffSeqs(_, _)
DiffOfSize(n) ==
    (IF n = 1 THEN DiffAtoms ELSE {}) \cup
    {Call(h, as) : h \in DiffHeads, as \in UNION {DiffSeqs(k, n - 1) : k \in 0..MaxArgs}}
DiffSeqs(k, total) ==
    IF k = 0 THEN (IF total = 0 THEN {<<>>} ELSE {})
    ELSE UNION {{<<e>> \o rest : e \in DiffOfSize(s), rest \in DiffSeqs(k - 1, total - s)} :
                    s \in 1..(total - (k - 1))}

\* powers of a compound base: Pow(g(a), e)
DiffPowers ==
    {Call(Pow, <<b, e>>) : b \in {c \in DiffOfSize(2) : IsTree(c)}, e \in DiffAtoms}

\* calls of a function that has no entry in the chain-rule table
DiffUnknown ==
    {Call(f, <<a>>) : a \in DiffAtoms}
    \cup {Call(h, <<Call(f, <<a>>), b>>) : h \in {Add, Mul}, a \in DiffAtoms, b \in DiffAtoms}

DiffInputs == UNION {DiffOfSize(n) : n \in 1..MaxDiffSize} \cup DiffPowers \cup DiffUnknown

DiffInit ==
    /\ dexpr \in DiffInputs
    /\ sym \in DiffSymbols
    /\ dpc = "input"
    /\ fwd = None
    /\ rev = None
    /\ expression = None /\ seen = {} /\ expressions = <<>> /\ stack = <<>>
    /\ lpc = "off"
    /\ form = [err |-> "none", atoms |-> <<>>, operations |-> <<>>]
    /\ rebuilt = None
    /\ HeapOff
    /\ UserOff
    /\ EvalOff

DiffForward ==
    /\ dpc = "input"
    /\ fwd' = diff(dexpr, sym, FALSE)
    /\ dpc' = "forward"
    /\ UNCHANGED <<dexpr, sym, rev, linearVars, reverseVars, evalVars, userVars, heapVars>>

DiffReverse ==
    /\ dpc = "forward"
    /\ rev' = diff(dexpr, sym, TRUE)
    /\ dpc' = "done"
    /\ UNCHANGED <<dexpr, sym, fwd, linearVars, reverseVars, evalVars, userVars, heapVars>>

DiffNext == DiffForward \/ DiffReverse

SpecDiff == DiffInit /\ [][DiffNext]_vars

-----------------------------------------------------------------------------
(* Claims on differentiation (SpecDiff) *)

\* Denotation of an expression at a sample point, in the integers.  sin and
\* cos are read as two fixed integer functions: the results compared below
\* differ at most by the ring laws, which every such reading respects.
SinSample(v) == 2 * v + 1
CosSample(v) == v * v + 2

SamplePoints == {[px |-> 1, py |-> 1], [px |-> 2, py |-> 1], [px |-> 1, py |-> 2]}

Undefined == [def |-> FALSE, v |-> 0]
Value(n) == [def |-> TRUE, v |-> n]

RECURSIVE IntPow(_, _)
IntPow(b, n) == IF n = 0 THEN 1 ELSE b * IntPow(b, n - 1)

RECURSIVE Eval(_, _), EvalSum(_, _), EvalProd(_, _)
Eval(e, pt) ==
    IF e[1] = "Integer" \/ e[1] = "int" THEN Value(e[2])
    ELSE IF e = x THEN Value(pt.px)
    ELSE IF e = y THEN Value(pt.py)
    ELSE IF ~IsTree(e) THEN Undefined
    ELSE IF HeadOf(e) = Add THEN EvalSum(Args(e), pt)
    ELSE IF HeadOf(e) = Mul THEN EvalProd(Args(e), pt)
    ELSE IF HeadOf(e) = Pow /\ Len(Args(e)) = 2
    THEN LET b == Eval(Args(e)[1], pt)
             n == Eval(Args(e)[2], pt)
         IN IF b.def /\ n.def /\ n.v >= 0 THEN Value(IntPow(b.v, n.v)) ELSE Undefined
    ELSE IF HeadOf(e) \in {sin, cos} /\ Len(Args(e)) = 1
    THEN LET a == Eval(Args(e)[1], pt)
         IN IF ~a.def THEN Undefined
            ELSE IF HeadOf(e) = sin THEN Value(SinSample(a.v))
            ELSE Value(CosSample(a.v))
    ELSE Undefined
EvalSum(as, pt) ==
    IF as = <<>> THEN Value(0)
    ELSE LET a == Eval(as[1], pt)
             r == EvalSum(Tail(as), pt)
         IN IF a.def /\ r.def THEN Value(a.v + r.v) ELSE Undefined
EvalProd(as, pt) ==
    IF as = <<>> THEN Value(1)
    ELSE LET a == Eval(as[1], pt)
             r == EvalProd(Tail(as), pt)
         IN IF a.def /\ r.def THEN Value(a.v * r.v) ELSE Undefined

\* a and b are expressions (not errors) that denote the same function
SameFunction(a, b) ==
    /\ ~IsError(a)
    /\ ~IsError(b)
    /\ \A pt \in SamplePoints :
          Eval(a, pt).def /\ Eval(b, pt).def /\ Eval(a, pt).v = Eval(b, pt).v

IsSymbolOrInteger(e) == e[1] = "Symbol" \/ e[1] = "Integer"

\* built from symbols, integer constants, n-ary Add and Mul, binary Pow, and
\* unary sin and cos
RECURSIVE WellFormed(_)
WellFormed(e) ==
    IF ~IsTree(e) THEN IsSymbolOrInteger(e)
    ELSE /\ \/ HeadOf(e) \in {Add, Mul} /\ Len(Args(e)) >= 1
            \/ HeadOf(e) = Pow /\ Len(Args(e)) = 2
            \/ HeadOf(e) \in {sin, cos} /\ Len(Args(e)) = 1
         /\ \A i \in 1..Len(Args(e)) : WellFormed(Args(e)[i])

\* every exponent of a power is an integer constant
ConstantExponents(e) ==
    \A s \in Subexpressions(e) :
        IsTree(s) /\ HeadOf(s) = Pow => Args(s)[2][1] = "Integer"

\* C6: for every expression built from symbols, integer constants, Add, Mul,
\* Pow with a constant exponent, sin and cos, and every symbol, _diff and
\* _diff_reverse both complete and return expressions that denote the same
\* function.
ForwardReverseAgree ==
    dpc = "done" /\ WellFormed(dexpr) /\ ConstantExponents(dexpr)
        => SameFunction(fwd, rev)

\* dexpr is Pow(base, exp), the exponent's derivative is the zero atom and
\* the base's derivative is an expression other than the zero atom
PowOfVaryingBase ==
    /\ WellFormed(dexpr)
    /\ IsTree(dexpr) /\ HeadOf(dexpr) = Pow
    /\ _diff(Args(dexpr)[2], sym) = zero
    /\ ~IsError(_diff(Args(dexpr)[1], sym))
    /\ _diff(Args(dexpr)[1], sym) # zero

\* exp * base^(exp-1) * d(base) for dexpr = Pow(base, exp)
PowRuleReference ==
    Call(Mul, <<Args(dexpr)[2],
                Call(Pow, <<Args(dexpr)[1], Call(Add, <<Args(dexpr)[2], negone>>)>>),
                _diff(Args(dexpr)[1], sym)>>)

\* C7: the derivative of Pow(base, exp) with a zero-derivative exponent and
\* an arbitrary nonzero d(base) denotes exp * base^(exp-1) * d(base), in
\* forward and in reverse mode.
PowChainRule ==
    dpc = "done" /\ PowOfVaryingBase
        => SameFunction(fwd, PowRuleReference) /\ SameFunction(rev, PowRuleReference)

\* some power node of dexpr has an exponent with a nonzero derivative
PowOfVaryingExponent ==
    /\ WellFormed(dexpr)
    /\ \E s \in Subexpressions(dexpr) :
          /\ IsTree(s) /\ HeadOf(s) = Pow
          /\ ~IsError(_diff(Args(s)[2], sym))
          /\ _diff(Args(s)[2], sym) # zero

\* C8: differentiating a power node whose exponent has a nonzero derivative
\* fails with the dedicated error of the exponent guard, in forward and in
\* reverse mode alike, and returns no expression.
PowExponentGuard ==
    dpc = "done" /\ PowOfVaryingExponent
        => fwd = Error("AssertionError") /\ rev = Error("AssertionError")

\* the symbol does not occur in dexpr
VarFree == sym \notin Subexpressions(dexpr)

\* dexpr holds a Pow node called on no arguments
HasEmptyPow == Call(Pow, <<>>) \in Subexpressions(dexpr)

\* C9 as stated: for every expression in which var does not occur, _diff and
\* _diff_reverse each return exactly the zero atom; for the atom var itself
\* both return exactly the unit atom.
ConstantHasZeroDerivative ==
    dpc = "done" =>
        /\ VarFree => fwd = zero /\ rev = zero
        /\ dexpr = sym => fwd = one /\ rev = one

\* C9 amended: the same for every expression that holds no Pow node called on
\* no arguments (on Pow() the forward mode raises IndexError).
ConstantHasZeroDerivativeAmended ==
    dpc = "done" =>
        /\ VarFree /\ ~HasEmptyPow => fwd = zero /\ rev = zero
        /\ dexpr = sym => fwd = one /\ rev = one

\* both modes have differentiated a power in which the symbol does not occur
ConstantPowWitness ==
    /\ dpc = "done" /\ VarFree
    /\ IsTree(dexpr) /\ HeadOf(dexpr) = Pow /\ Len(Args(dexpr)) = 2
    /\ fwd = zero /\ rev = zero

\* dexpr is a product of symbols and integer constants other than one
ProductOfAtoms ==
    /\ IsTree(dexpr) /\ HeadOf(dexpr) = Mul /\ Len(Args(dexpr)) >= 1
    /\ \A i \in 1..Len(Args(dexpr)) :
          IsSymbolOrInteger(Args(dexpr)[i]) /\ Args(dexpr)[i] # one

\* no Mul node of e has the unit atom among its arguments
NoUnitFactor(e) ==
    \A s \in Subexpressions(e) :
        IsTree(s) /\ HeadOf(s) = Mul => one \notin Range(Args(s))

\* the sum over the factors equal to sym of the product of the other factors
RECURSIVE ProductRuleValue(_, _, _)
ProductRuleValue(args, n, pt) ==
    IF n > Len(args) THEN 0
    ELSE (IF args[n] = sym
          THEN EvalProd(SubSeq(args, 1, n - 1) \o SubSeq(args, n + 1, Len(args)), pt).v
          ELSE 0)
         + ProductRuleValue(args, n + 1, pt)

\* C10: in both modes the derivative of Mul(a1..an) is the sum over the
\* factors with nonzero derivative of the other factors times that factor's
\* derivative, with every unit-atom factor elided: no Mul node of the result
\* has Integer(1) among its arguments, and d/dx Mul(x, y) is y.
ProductRuleElidesUnit ==
    dpc = "done" /\ ProductOfAtoms =>
        /\ \A r \in {fwd, rev} :
              /\ ~IsError(r)
              /\ NoUnitFactor(r)
              /\ \A pt \in SamplePoints :
                    Eval(r, pt).def
                    /\ Eval(r, pt).v = ProductRuleValue(Args(dexpr), 1, pt)
        /\ (dexpr = Call(Mul, <<x, y>>) /\ sym = x => fwd = y /\ rev = y)

\* the keys of the chain-rule table derivatives
DerivativeKeys == {<<sin, 0>>, <<cos, 0>>, <<Pow, 0>>}

\* the derivative of e with respect to s needs a partial derivative that the
\* table does not have: a call of a function other than Add and Mul has an
\* argument that contains s at a position without an entry
NeedsMissingEntry(e, s) ==
    \E sub \in Subexpressions(e) :
        /\ IsTree(sub)
        /\ HeadOf(sub) \notin {Add, Mul}
        /\ \E n \in 1..Len(Args(sub)) :
              /\ s \in Subexpressions(Args(sub)[n])
              /\ <<HeadOf(sub), n - 1>> \notin DerivativeKeys

\* C14: when differentiation needs the partial derivative of a function at an
\* argument position that the chain-rule table has no entry for, _diff and
\* _diff_reverse raise; no derivative expression (the zero atom or any other)
\* is returned.
MissingEntryRaises ==
    NeedsMissingEntry(dexpr, sym) =>
        /\ dpc \in {"forward", "done"} => IsError(fwd)
        /\ dpc = "done" => IsError(rev)

\* both algorithms have been applied to a call of a function without any
\* entry whose argument is the symbol, and both have raised KeyError
MissingEntryWitness ==
    /\ dpc = "done"
    /\ dexpr = Call(f, <<x>>) /\ sym = x
    /\ fwd = Error("KeyError") /\ rev = Error("KeyError")

-----------------------------------------------------------------------------
(* SpecReverse: _diff_reverse with its reversed loop run one operation per  *)
(* step.                                                                    *)

\* sums and products of one compound taken twice: a shared operation slot
ReverseShared ==
    {Call(h, <<c, c>>) : h \in {Add, Mul}, c \in {d \in DiffOfSize(2) : IsTree(d)}}

ReverseInputs == DiffInputs \cup ReverseShared

\* stack, operations = evaluation_form(expr, {})
ReverseForm == evaluation_form(dexpr, EmptyDict)

ReverseInit ==
    /\ dexpr \in ReverseInputs
    /\ sym \in DiffSymbols
    /\ dpc = "call"
    /\ fwd = None
    /\ rev = None
    /\ rdiff_terms = <<>> /\ remaining = 0
    /\ expression = None /\ seen = {} /\ expressions = <<>> /\ stack = <<>>
    /\ lpc = "off"
    /\ form = [err |-> "none", atoms |-> <<>>, operations |-> <<>>]
    /\ rebuilt = None
    /\ HeapOff
    /\ UserOff
    /\ EvalOff

\* the entry of _diff_reverse up to the reversed loop: the early return of
\* zero, the forward pass, the seeding of diff_terms
ReverseStart ==
    /\ dpc = "call"
    /\ IF IndexOf(ReverseForm.atoms, sym) = 0
       THEN /\ rev' = zero
            /\ dpc' = "returned"
            /\ UNCHANGED reverseVars
       ELSE /\ rdiff_terms' = SeedTerms(Len(ReverseForm.atoms) + Len(ReverseForm.operations))
            /\ remaining' = Len(ReverseForm.operations)
            /\ dpc' = "reverse"
            /\ UNCHANGED rev
    /\ UNCHANGED <<dexpr, sym, fwd, linearVars, evalVars, userVars, heapVars>>

\* one iteration of "for func, indices in reversed(operations)"
ReverseStep ==
    /\ dpc = "reverse"
    /\ remaining > 0
    /\ LET stk == ForwardPass(ReverseForm.atoms, ReverseForm.operations)
           r == ReverseStepFn(rdiff_terms, stk, ReverseForm.operations, remaining)
       IN IF r.err # ""
          THEN /\ rev' = Error(r.err)
               /\ dpc' = "raised"
               /\ UNCHANGED reverseVars
          ELSE /\ rdiff_terms' = r.diff_terms
               /\ remaining' = remaining - 1
               /\ UNCHANGED <<rev, dpc>>
    /\ UNCHANGED <<dexpr, sym, fwd, linearVars, evalVars, userVars, heapVars>>

\* after the loop: terms_final = diff_terms[sym_index] and its sum
ReverseReturn ==
    /\ dpc = "reverse"
    /\ remaining = 0
    /\ rev' = SumTerms(rdiff_terms[IndexOf(ReverseForm.atoms, sym)])
    /\ dpc' = "returned"
    /\ UNCHANGED <<dexpr, sym, fwd, reverseVars, linearVars, evalVars, userVars, heapVars>>

ReverseNext == ReverseStart \/ ReverseStep \/ ReverseReturn

SpecReverse == ReverseInit /\ [][ReverseNext]_vars

-----------------------------------------------------------------------------
(* Claims on the reverse pass (SpecReverse) *)

\* the number of times slot i (0-based) is an argument of an operation
\* listed after operation k (1-based)
RECURSIVE UsesAfter(_, _)
UsesAfter(i, k) ==
    IF k >= Len(ReverseForm.operations) THEN 0
    ELSE Cardinality({p \in 1..Len(ReverseForm.operations[k + 1][2]) :
                         ReverseForm.operations[k + 1][2][p] = i})
         + UsesAfter(i, k + 1)

\* the seed of the output slot
SeedCount(i) ==
    IF i = Len(ReverseForm.atoms) + Len(ReverseForm.operations) - 1 THEN 1 ELSE 0

\* C13: the output slot is seeded with the unit atom and the operations are
\* taken in reverse listed order; whenever an operation's list is about to be
\* popped it is the last list, it belongs to that operation, and every later
\* operation that has the slot as an argument has appended its contribution;
\* after all operations exactly len(atoms) accumulators remain.
ReversePassOrder ==
    dpc = "reverse" =>
        /\ Len(rdiff_terms) = Len(ReverseForm.atoms) + remaining
        /\ \A i \in 1..Len(rdiff_terms) :
              Len(rdiff_terms[i]) = UsesAfter(i - 1, remaining) + SeedCount(i - 1)
        /\ remaining = Len(ReverseForm.operations) =>
              rdiff_terms[Len(rdiff_terms)] = <<one>>

\* the loop is about to pop the list of an operation that two argument
\* positions of an already processed operation have contributed to
ReversePassWitness ==
    /\ dpc = "reverse"
    /\ remaining > 0 /\ remaining < Len(ReverseForm.operations)
    /\ Len(rdiff_terms[Len(rdiff_terms)]) >= 2

-----------------------------------------------------------------------------
(* evaluate, and the operator tables of the module *)

\* the AtomType object of the given name, as a key of an operator table
AtomType(name) == <<"AtomType", name>>

\* values.get(e, e)
Lookup_get(values, e) == IF e \in DOMAIN values THEN values[e] ELSE e

\* the native int of a value, for the callables that add their arguments
IsNativeInt(v) == v[1] = "int"

RECURSIVE SumNative(_)
SumNative(a) == IF a = <<>> THEN 0 ELSE a[1][2] + SumNative(Tail(a))

\* sum1 = lambda *a: 1 + sum(a)
sum1(a) ==
    IF \A i \in 1..Len(a) : IsNativeInt(a[i])
    THEN <<"int", 1 + SumNative(a)>>
    ELSE Error("TypeError")

\* reduce(operator, args) for a non-empty args
RECURSIVE reduce(_, _, _)
reduce(operator, acc, rest) ==
    IF rest = <<>> THEN acc
    ELSE reduce(operator, Call(operator, <<acc, rest[1]>>), Tail(rest))

\* _binexpand(operator, args)
_binexpand(operator, args) ==
    IF Len(args) = 0 THEN Error("ValueError")
    ELSE reduce(operator, args[1], Tail(args))

\* func(*args): an Expression called on args builds the compound node, a
\* callable of a table is applied
ApplyFunc(func, args) ==
    IF func = Builtin("sum1") THEN sum1(args)
    ELSE IF func = Builtin("binexpand_Add") THEN _binexpand(Add, args)
    ELSE IF func = Builtin("binexpand_Mul") THEN _binexpand(Mul, args)
    ELSE IF func[1] = "builtin" THEN Error("TypeError")
    ELSE Call(func, args)

\* for func, indices in operations: stack.append(func(*args))
RECURSIVE EvaluateLoop(_, _)
EvaluateLoop(stk, operations) ==
    IF operations = <<>> THEN [err |-> "", stack |-> stk]
    ELSE LET r == ApplyFunc(operations[1][1], Gather(stk, operations[1][2]))
         IN IF IsError(r) THEN [err |-> r[2], stack |-> stk]
            ELSE EvaluateLoop(Append(stk, r), Tail(operations))

\* return stack[-1]
StackFirst(stk) == stk[1]
StackLast(stk) == stk[Len(stk)]

\* evaluate(expression, operators, values)
evaluate(e, operators, values) ==
    LET ef == evaluation_form(e, operators)
        stk == [n \in 1..Len(ef.atoms) |-> Lookup_get(values, ef.atoms[n])]
        r == EvaluateLoop(stk, ef.operations)
    IN IF ef.err # "" THEN Error(ef.err)
       ELSE IF r.err # "" THEN Error(r.err)
       ELSE IF r.stack = <<>> THEN Error("IndexError")
       ELSE StackLast(r.stack)

operators_count_ops ==
    (AtomType("Integer") :> Builtin("op1")) @@ (AtomType("Symbol") :> Builtin("op1"))
    @@ (Add :> Builtin("sum1")) @@ (Mul :> Builtin("sum1")) @@ (Pow :> Builtin("sum1"))
    @@ (sin :> Builtin("sum1")) @@ (cos :> Builtin("sum1"))

operators_binexpand ==
    (Add :> Builtin("binexpand_Add")) @@ (Mul :> Builtin("binexpand_Mul"))

\* binexpand(expression)
binexpand(e) == evaluate(e, operators_binexpand, EmptyDict)

operators_llvm ==
    (Add :> Add) @@ (Mul :> Mul) @@ (Pow :> Pow) @@ (cos :> cos) @@ (sin :> sin)
    @@ (AtomType("Integer") :> Builtin("float"))

-----------------------------------------------------------------------------
(* to_llvm_f64.  An identifier is <<sigil, text>>: <<"%", "s">> is %"s",    *)
(* <<"%.", n>> is %".n", <<"0x", digits>> is a hexadecimal constant.  An    *)
(* instruction is [identifier, opcode, operands]; the module is its         *)
(* signature (the parameter identifiers) and its instructions.              *)

\* double_to_hex(f) for the floats the inputs hold
double_to_hex(v) ==
    CASE v = 0 -> <<"0x", "0">>
      [] v = 1 -> <<"0x", "3ff0000000000000">>
      [] v = 2 -> <<"0x", "4000000000000000">>
      [] v = -1 -> <<"0x", "bff0000000000000">>
      [] OTHER -> <<"0x", "other">>

\* argnames[s]: the f-string f'%"s"' has no replacement field
argnames(s) == <<"%", "s">>

\* the identifiers of the atom slots; err is "ValueError" for an atom that
\* is neither in symargs nor a float
RECURSIVE AtomIdentifiers(_, _)
AtomIdentifiers(atoms, sa) ==
    IF atoms = <<>> THEN [err |-> "", identifiers |-> <<>>]
    ELSE LET a == atoms[1]
             rest == AtomIdentifiers(Tail(atoms), sa)
         IN IF a \in Range(sa)
            THEN [rest EXCEPT !.identifiers = <<argnames(a)>> \o @]
            ELSE IF a[1] = "float"
            THEN [rest EXCEPT !.identifiers = <<double_to_hex(a[2])>> \o @]
            ELSE [err |-> "ValueError", identifiers |-> <<>>]

\* the opcode emitted for func, and the number of argids its line reads
\* (0: all of them, joined)
Opcode(func) ==
    IF func = Add THEN [op |-> "fadd", reads |-> 0]
    ELSE IF func = Mul THEN [op |-> "fmul", reads |-> 0]
    ELSE IF func = Pow THEN [op |-> "llvm.pow.f64", reads |-> 2]
    ELSE IF func = sin THEN [op |-> "llvm.sin.f64", reads |-> 1]
    ELSE IF func = cos THEN [op |-> "llvm.cos.f64", reads |-> 1]
    ELSE [op |-> "", reads |-> 0]

\* the loop over the operations; st = [err, identifiers, instructions]
RECURSIVE InstructionLoop(_, _)
InstructionLoop(st, operations) ==
    IF operations = <<>> \/ st.err # "" THEN st
    ELSE LET func == operations[1][1]
             identifier == <<"%.", Len(st.instructions)>>
             identifiers == Append(st.identifiers, identifier)
             argids == Gather(identifiers, operations[1][2])
             oc == Opcode(func)
         IN IF oc.op = "" THEN [st EXCEPT !.err = "ValueError"]
            ELSE IF Len(argids) < oc.reads THEN [st EXCEPT !.err = "IndexError"]
            ELSE InstructionLoop(
                    [err |-> "",
                     identifiers |-> identifiers,
                     instructions |-> Append(st.instructions,
                         [identifier |-> identifier, opcode |-> oc.op,
                          operands |-> IF oc.reads = 0 THEN argids
                                       ELSE SubSeq(argids, 1, oc.reads)])],
                    Tail(operations))

\* to_llvm_f64 after "expression = binexpand(expression)" has returned expanded
emit_llvm(sa, expanded) ==
    LET ef == evaluation_form(expanded, operators_llvm)
        ai == AtomIdentifiers(ef.atoms, sa)
        st == InstructionLoop([err |-> "", identifiers |-> ai.identifiers,
                               instructions |-> <<>>], ef.operations)
        failed(kind) == [err |-> kind, signature |-> <<>>, instructions |-> <<>>]
    IN IF IsError(expanded) THEN failed(expanded[2])
       ELSE IF ef.err # "" THEN failed(ef.err)
       ELSE IF ai.err # "" THEN failed(ai.err)
       ELSE IF st.err # "" THEN failed(st.err)
       ELSE IF st.identifiers = <<>> THEN failed("IndexError")
       ELSE [err |-> "",
             signature |-> [n \in 1..Len(sa) |-> argnames(sa[n])],
             instructions |-> Append(st.instructions,
                 [identifier |-> <<"ret", "">>, opcode |-> "ret",
                  operands |-> <<st.identifiers[Len(st.identifiers)]>>])]

\* to_llvm_f64(symargs, expression)
to_llvm_f64(sa, e) ==
    CHOOSE module \in {emit_llvm(sa, expanded) : expanded \in {binexpand(e)}} : TRUE

-----------------------------------------------------------------------------
(* SpecEval: evaluation_form and evaluate applied to an input expression    *)
(* with each operator table, and to_llvm_f64 with each parameter list.      *)

EvalInputs == LinearInputs \cup DiffInputs

OperatorTables == {EmptyDict, operators_count_ops, operators_binexpand, operators_llvm}

EvalInit ==
    /\ subject \in EvalInputs
    /\ optable = EmptyDict /\ symargs = <<>>
    /\ epc = "input"
    /\ eform = [err |-> "none", atoms |-> <<>>, operations |-> <<>>]
    /\ evaluated = None /\ module_code = None
    /\ expression = None /\ seen = {} /\ expressions = <<>> /\ stack = <<>>
    /\ lpc = "off"
    /\ form = [err |-> "none", atoms |-> <<>>, operations |-> <<>>]
    /\ rebuilt = None
    /\ dexpr = None /\ sym = None /\ dpc = "off" /\ fwd = None /\ rev = None
    /\ rdiff_terms = <<>> /\ remaining = 0
    /\ HeapOff
    /\ UserOff

EvalForm ==
    /\ epc = "input"
    /\ \E ops \in OperatorTables :
          /\ optable' = ops
          /\ eform' = evaluation_form(subject, ops)
    /\ epc' = "formed"
    /\ UNCHANGED <<subject, symargs, evaluated, module_code, linearVars, diffVars, reverseVars, userVars, heapVars>>

Evaluate ==
    /\ epc = "formed"
    /\ evaluated' = evaluate(subject, optable, EmptyDict)
    /\ epc' = "evaluated"
    /\ UNCHANGED <<subject, optable, symargs, eform, module_code, linearVars, diffVars, reverseVars, userVars, heapVars>>

\* the parameter lists of to_llvm_f64
SymArgLists == {<<>>, <<x>>, <<y>>, <<x, y>>, <<y, x>>}

ToLLVM ==
    /\ epc = "input"
    /\ \E sa \in SymArgLists :
          /\ symargs' = sa
          /\ module_code' = to_llvm_f64(sa, subject)
    /\ epc' = "compiled"
    /\ UNCHANGED <<subject, optable, eform, evaluated, linearVars, diffVars, reverseVars, userVars, heapVars>>

EvalNext == EvalForm \/ Evaluate \/ ToLLVM

SpecEval == EvalInit /\ [][EvalNext]_vars

-----------------------------------------------------------------------------
(* Claims on evaluation_form and evaluate (SpecEval) *)

\* C11: with an empty operator table and empty bindings, evaluate(e, {}, {})
\* returns the node e itself, for every expression e: each unmapped head
\* rebuilds the same interned node and the last slot is returned.
EvaluateIsIdentity ==
    epc = "evaluated" /\ optable = EmptyDict => evaluated = subject

\* evaluate has returned for a compound whose head is itself a compound and
\* that has a further compound among its arguments
EvaluateIdentityWitness ==
    /\ epc = "evaluated" /\ optable = EmptyDict
    /\ IsTree(subject) /\ IsTree(HeadOf(subject))
    /\ \E a \in Range(Args(subject)) : IsTree(a)

\* the nodes of the subject that are not keys of the table, in depth-first
\* postorder: the leaves, and the compound nodes
SlotLeaves ==
    SelectSeq(PostOrder(subject),
              LAMBDA s : s \notin DOMAIN optable /\ Children(s) = <<>>)

SlotCompounds ==
    SelectSeq(PostOrder(subject),
              LAMBDA s : s \notin DOMAIN optable /\ Children(s) # <<>>)

\* the node that slot i (0-based) stands for
SlotNode(i) == (SlotLeaves \o SlotCompounds)[i + 1]

\* C12: whenever evaluation_form(e, ops) returns (atoms, operations): there
\* is one atom slot per distinct leaf, the k-th operation (k from 0) occupies
\* slot len(atoms)+k, every argument of every compound node is resolved to
\* the slot of that argument, and every index of an operation is strictly
\* smaller than the operation's own slot.
EvaluationFormSlots ==
    epc \in {"formed", "evaluated"} /\ eform.err = "" =>
        /\ Len(eform.atoms) = Cardinality(Range(SlotLeaves))
        /\ Len(eform.atoms) = Len(SlotLeaves)
        /\ \A n \in 1..Len(SlotLeaves) :
              HeadOf(SlotLeaves[n]) \notin DOMAIN optable => eform.atoms[n] = SlotLeaves[n]
        /\ Len(eform.operations) = Len(SlotCompounds)
        /\ \A k \in 1..Len(eform.operations) :
              LET indices == eform.operations[k][2]
                  node == SlotCompounds[k]
              IN /\ Len(indices) = Len(Args(node))
                 /\ \A j \in 1..Len(indices) :
                       /\ indices[j] >= 0
                       /\ indices[j] < Len(eform.atoms) + (k - 1)
                       /\ SlotNode(indices[j]) = Args(node)[j]

\* a form was returned for a non-empty table, in which a leaf is the argument
\* of two operations and an operation takes the slot of an earlier operation
EvaluationFormWitness ==
    /\ epc = "formed" /\ eform.err = "" /\ optable = operators_llvm
    /\ \E k \in 1..Len(eform.operations) :
          \E j \in 1..Len(eform.operations[k][2]) :
              eform.operations[k][2][j] >= Len(eform.atoms)
    /\ \E i \in 0..(Len(eform.atoms) - 1) :
          Cardinality({k \in 1..Len(eform.operations) :
                          i \in Range(eform.operations[k][2])}) >= 2

\* C16: in the module to_llvm_f64(symargs, expression) returns, distinct
\* parameters of symargs have distinct identifiers, so a parameter operand of
\* an instruction names exactly one parameter of the signature; every other
\* operand is a constant or the identifier of a strictly earlier instruction;
\* the value returned is the last slot.
LLVMOperandsIdentifySlots ==
    epc = "compiled" /\ module_code.err = "" =>
        LET sig == module_code.signature
            ins == module_code.instructions
            n == Len(ins)
        IN /\ \A i \in 1..Len(symargs) : \A j \in 1..Len(symargs) :
                 symargs[i] # symargs[j] => sig[i] # sig[j]
           /\ \A k \in 1..(n - 1) : \A p \in 1..Len(ins[k].operands) :
                 LET o == ins[k].operands[p]
                 IN \/ o[1] = "%" /\ Cardinality({i \in 1..Len(sig) : sig[i] = o}) = 1
                    \/ o[1] = "0x"
                    \/ o[1] = "%." /\ o[2] < k - 1
           /\ ins[n].opcode = "ret"
           /\ n > 1 => ins[n].operands = <<ins[n - 1].identifier>>

-----------------------------------------------------------------------------
(* userexpression.py: UserExpression and its arithmetic operators.  A       *)
(* UserExpression object is <<"UserExpression", _rep>>.                     *)

UserExpression(r) == <<"UserExpression", r>>

\* isinstance(obj, UserExpression)
IsUser(obj) == obj[1] = "UserExpression"

\* isinstance(obj, Expression)
IsExpression(obj) == obj[1] \in {"Tree", "Symbol", "Integer", "Function"}

\* self._rep
Rep(u) == u[2]

\* expressify(obj): a UserExpression is returned as it is, an int is wrapped
\* through expressify_dict, anything else raises ValueError
expressify(obj) ==
    IF IsUser(obj) THEN obj
    ELSE IF obj[1] = "int" THEN UserExpression(Integer(obj[2]))
    ELSE Error("ValueError")

UserExpression__neg__(self) == UserExpression(Call(Mul, <<negone, Rep(self)>>))

UserExpression__add__(self, other) ==
    LET other_expr == expressify(other)
    IN IF IsError(other_expr) THEN other_expr
       ELSE UserExpression(Call(Add, <<Rep(self), Rep(other_expr)>>))

UserExpression__radd__(self, other) ==
    LET other_expr == expressify(other)
    IN IF IsError(other_expr) THEN other_expr
       ELSE UserExpression(Call(Add, <<Rep(other_expr), Rep(self)>>))

UserExpression__sub__(self, other) ==
    LET other_expr == expressify(other)
    IN IF IsError(other_expr) THEN other_expr
       ELSE UserExpression(Call(Add, <<Rep(self), Call(Mul, <<negone, Rep(other_expr)>>)>>))

UserExpression__mul__(self, other) ==
    LET other_expr == expressify(other)
    IN IF IsError(other_expr) THEN other_expr
       ELSE Call(Mul, <<Rep(self), Rep(other_expr)>>)

UserExpression__rmul__(self, other) ==
    LET other_expr == expressify(other)
    IN IF IsError(other_expr) THEN other_expr
       ELSE UserExpression(Call(Mul, <<Rep(other_expr), Rep(self)>>))

UserExpression__pow__(self, other) ==
    LET other_expr == expressify(other)
    IN IF IsError(other_expr) THEN other_expr
       ELSE UserExpression(Call(Pow, <<Rep(self), Rep(other_expr)>>))

\* the operators of Expression
Expression__neg__(self) == Call(Mul, <<Integer(-1), self>>)
Expression__add__(self, other) == Call(Add, <<self, other>>)
Expression__sub__(self, other) == Call(Add, <<self, Call(Mul, <<Integer(-1), other>>)>>)
Expression__mul__(self, other) == Call(Mul, <<self, other>>)
Expression__pow__(self, other) == Call(Pow, <<self, other>>)

\* Python's evaluation of  -a,  a + b,  a - b,  a * b,  a ** b  for the
\* objects of the model: the method of the left operand's class; for an int
\* on the left the reflected method of the right operand, TypeError if the
\* class has none
Negative(a) ==
    IF IsUser(a) THEN UserExpression__neg__(a) ELSE Expression__neg__(a)

Plus(a, b) ==
    IF IsUser(a) THEN UserExpression__add__(a, b)
    ELSE IF IsExpression(a) THEN Expression__add__(a, b)
    ELSE IF IsUser(b) THEN UserExpression__radd__(b, a)
    ELSE Error("TypeError")

Minus(a, b) ==
    IF IsUser(a) THEN UserExpression__sub__(a, b)
    ELSE IF IsExpression(a) THEN Expression__sub__(a, b)
    ELSE Error("TypeError")

Times(a, b) ==
    IF IsUser(a) THEN UserExpression__mul__(a, b)
    ELSE IF IsExpression(a) THEN Expression__mul__(a, b)
    ELSE IF IsUser(b) THEN UserExpression__rmul__(b, a)
    ELSE Error("TypeError")

Power(a, b) ==
    IF IsUser(a) THEN UserExpression__pow__(a, b)
    ELSE IF IsExpression(a) THEN Expression__pow__(a, b)
    ELSE Error("TypeError")

-----------------------------------------------------------------------------
(* SpecUser: a program applies arithmetic operators, one per step, to the   *)
(* value it holds, starting from a symbol made by symbols().                *)

\* symbols('x, y')
symbols == {UserExpression(x), UserExpression(y)}

\* the ints a program writes as operands
UserInts == {<<"int", 1>>, <<"int", 2>>}

\* the operands expressify accepts
UserOperands == symbols \cup UserInts

UserInit ==
    /\ uval \in symbols
    /\ usteps = 0
    /\ expression = None /\ seen = {} /\ expressions = <<>> /\ stack = <<>>
    /\ lpc = "off"
    /\ form = [err |-> "none", atoms |-> <<>>, operations |-> <<>>]
    /\ rebuilt = None
    /\ dexpr = None /\ sym = None /\ dpc = "off" /\ fwd = None /\ rev = None
    /\ rdiff_terms = <<>> /\ remaining = 0
    /\ HeapOff
    /\ EvalOff

\* the program goes on while no exception was raised
UserStep(result) ==
    /\ ~IsError(uval)
    /\ uval' = result
    /\ usteps' = usteps + 1
    /\ UNCHANGED <<linearVars, diffVars, reverseVars, evalVars, heapVars>>

\* uval = -uval
UserNeg == usteps < MaxUserOps /\ UserStep(Negative(uval))

\* uval = uval + other
UserAdd == usteps < MaxUserOps /\ \E other \in UserOperands : UserStep(Plus(uval, other))

\* uval = other + uval, other an int
UserRadd == usteps < MaxUserOps /\ \E other \in UserInts : UserStep(Plus(other, uval))

\* uval = uval - other
UserSub == usteps < MaxUserOps /\ \E other \in UserOperands : UserStep(Minus(uval, other))

\* uval = uval * other
UserMul == usteps < MaxUserOps /\ \E other \in UserOperands : UserStep(Times(uval, other))

\* uval = other * uval, other an int
UserRmul == usteps < MaxUserOps /\ \E other \in UserInts : UserStep(Times(other, uval))

\* uval = uval ** other
UserPow == usteps < MaxUserOps /\ \E other \in UserOperands : UserStep(Power(uval, other))

UserNext ==
    UserNeg \/ UserAdd \/ UserRadd \/ UserSub \/ UserMul \/ UserRmul \/ UserPow

SpecUser == UserInit /\ [][UserNext]_vars

-----------------------------------------------------------------------------
(* Claims on UserExpression (SpecUser) *)

\* e is an Expression all of whose descendants are Expressions
RECURSIVE PureGraph(_)
PureGraph(e) ==
    /\ IsExpression(e)
    /\ \A i \in 1..Len(Children(e)) : PureGraph(Children(e)[i])

\* C17: after any sequence of the arithmetic operators of UserExpression on
\* operands that expressify accepts, the value is a UserExpression whose _rep
\* is an Expression with only Expressions below it.
UserOperatorsClosed ==
    ~IsError(uval) => IsUser(uval) /\ PureGraph(Rep(uval))

-----------------------------------------------------------------------------
(* The interning tables.  Objects are records kept by object id; identity  *)
(* of an object is its id.  A native value is <<number, concrete type>>:   *)
(* 1 is <<1, "int">> and 1.0 is <<1, "float">>.                            *)

Threads == {1, 2}

AtomTypes == {"Integer", "Symbol"}
NativeValues == {<<1, "int">>, <<1, "float">>}

\* type(value)
TypeOf(value) == value[2]

\* value == value of Python: numbers compare by their numeric value
PyEq(v, w) == v[1] = w[1]

\* key = (atom_type, value, type(value))
AtomKeyUntyped(atom_type, value) == <<atom_type, value, "object">>
AtomKey(atom_type, value) == <<atom_type, value, TypeOf(value)>>

\* equality of two all_atoms keys as the dict decides it: the AtomType by
\* identity, the value by ==, the type by identity
AtomKeyEq(k1, k2) == k1[1] = k2[1] /\ PyEq(k1[2], k2[2]) /\ k1[3] = k2[3]

\* the object AtomExpression.__new__ builds on a miss
AtomObject(atom_type, value) ==
    [atom |-> TRUE, head |-> atom_type, value |-> value, children |-> <<>>]

\* the object TreeExpression.__new__ builds on a miss
TreeObject(children) ==
    [atom |-> FALSE, head |-> children[1], value |-> None, children |-> children]

\* the table key of the request that builds object o
TableKey(o) == IF o.atom THEN AtomKey(o.head, o.value) ELSE o.children

\* the entries of o's table whose key equals o's key
Matching(o) ==
    IF o.atom THEN {en \in all_atoms : AtomKeyEq(en.key, TableKey(o))}
    ELSE {en \in all_expressions : en.key = TableKey(o)}

\* table.get(key, None): the referent of the entry when there is an entry and
\* its referent is not deallocated; 0 stands for None
Previous(o) ==
    LET hits == {en \in Matching(o) : en.obj \in alive}
    IN IF hits = {} THEN 0 ELSE (CHOOSE en \in hits : TRUE).obj

\* table[key] = expression
InsertedNot(table, o, id) == table
Inserted(table, o, id) == (table \ Matching(o)) \cup {[key |-> TableKey(o), obj |-> id]}

\* the ids reachable from the set ids through children
RECURSIVE Closure(_)
Closure(ids) ==
    LET more == ids \cup UNION {Range(objs[i].children) : i \in ids}
    IN IF more = ids THEN ids ELSE Closure(more)

\* the objects a thread's frame references while its __new__ is pending
Pending == UNION {Range(req[t].children) : t \in {u \in Threads : pc[u] = "insert"}}

\* the objects the program can name: those it references, and their descendants
Held == Closure(refs \cup Pending)

\* id has a strong reference: from an owner, from a pending call, from the
\* children of an object not yet deallocated, or from a key of all_expressions
Referenced(id) ==
    \/ id \in refs \cup Pending
    \/ \E j \in alive : id \in Range(objs[j].children)
    \/ \E en \in all_expressions : id \in Range(en.key)

NoRequest == [atom |-> TRUE, head |-> "none", value |-> None, children |-> <<>>]

HeapInit ==
    /\ objs = <<>>
    /\ alive = {}
    /\ refs = {}
    /\ all_atoms = {}
    /\ all_expressions = {}
    /\ pc = [t \in Threads |-> "idle"]
    /\ req = [t \in Threads |-> NoRequest]

\* the requests a caller can make: an atom of any type and value, or a
\* compound over objects it can name
AtomRequests == {AtomObject(t, v) : t \in AtomTypes, v \in NativeValues}

TreeRequests == {TreeObject(cs) : cs \in UNION {[1..n -> Held] : n \in 1..MaxKeyLen}}

\* the miss path of __new__: object.__new__, the fields, table[key] = expression
Create(o) ==
    LET id == Len(objs) + 1
    IN /\ Len(objs) < MaxObjects
       /\ objs' = Append(objs, o)
       /\ alive' = alive \cup {id}
       /\ refs' = refs \cup {id}
       /\ IF o.atom
          THEN all_atoms' = Inserted(all_atoms, o, id) /\ UNCHANGED all_expressions
          ELSE all_expressions' = Inserted(all_expressions, o, id) /\ UNCHANGED all_atoms

\* AtomExpression.__new__ / TreeExpression.__new__ run without interruption
New(o) ==
    /\ \A t \in Threads : pc[t] = "idle"
    /\ IF Previous(o) # 0
       THEN /\ refs' = refs \cup {Previous(o)}
            /\ UNCHANGED <<objs, alive, all_atoms, all_expressions>>
       ELSE Create(o)
    /\ UNCHANGED <<pc, req, pureVars>>

NewAtom == \E o \in AtomRequests : o.atom /\ New(o)

NewTree == \E o \in TreeRequests : ~o.atom /\ New(o)

\* an owner drops its reference
Release ==
    \E id \in refs :
        /\ refs' = refs \ {id}
        /\ UNCHANGED <<objs, alive, all_atoms, all_expressions, pc, req, pureVars>>

\* an object without strong references is deallocated; its weak table entry
\* now refers to nothing
Collect ==
    \E id \in alive :
        /\ ~Referenced(id)
        /\ alive' = alive \ {id}
        /\ UNCHANGED <<objs, refs, all_atoms, all_expressions, pc, req, pureVars>>

\* the callback of a dead weak reference removes its entry from the table
Reclaim ==
    /\ \/ \E en \in all_atoms :
             /\ en.obj \notin alive
             /\ all_atoms' = all_atoms \ {en}
             /\ UNCHANGED all_expressions
       \/ \E en \in all_expressions :
             /\ en.obj \notin alive
             /\ all_expressions' = all_expressions \ {en}
             /\ UNCHANGED all_atoms
    /\ UNCHANGED <<objs, alive, refs, pc, req, pureVars>>

HeapNext == NewAtom \/ NewTree \/ Release \/ Collect \/ Reclaim

PureOff ==
    /\ expression = None /\ seen = {} /\ expressions = <<>> /\ stack = <<>>
    /\ lpc = "off"
    /\ form = [err |-> "none", atoms |-> <<>>, operations |-> <<>>]
    /\ rebuilt = None
    /\ dexpr = None /\ sym = None /\ dpc = "off" /\ fwd = None /\ rev = None
    /\ EvalOff
    /\ UserOff

\* the state after the module is imported
Init == HeapInit /\ PureOff

Spec == Init /\ [][HeapNext]_vars

-----------------------------------------------------------------------------
(* SpecThreads: two threads construct expressions; a thread can be         *)
(* preempted between the table lookup and the table insertion of __new__.  *)

\* previous = table.get(key, None); if previous is not None: return previous
\* (on a miss the thread goes on to the insertion with its request o)
Get(t, o) ==
    /\ IF Previous(o) # 0
       THEN /\ refs' = refs \cup {Previous(o)}
            /\ UNCHANGED <<pc, req>>
       ELSE /\ pc' = [pc EXCEPT ![t] = "insert"]
            /\ req' = [req EXCEPT ![t] = o]
            /\ UNCHANGED refs
    /\ UNCHANGED <<objs, alive, all_atoms, all_expressions, pureVars>>

\* thread t enters __new__ of either class with any request
Lookup(t) ==
    /\ pc[t] = "idle"
    /\ \/ \E o \in AtomRequests : Get(t, o)
       \/ \E o \in TreeRequests : Get(t, o)

\* expression = object.__new__(..); ...; table[key] = expression; return expression
Insert(t) ==
    /\ pc[t] = "insert"
    /\ Create(req[t])
    /\ pc' = [pc EXCEPT ![t] = "idle"]
    /\ req' = [req EXCEPT ![t] = NoRequest]
    /\ UNCHANGED pureVars

ThreadLookup == \E t \in Threads : Lookup(t)

ThreadInsert == \E t \in Threads : Insert(t)

ThreadsNext == ThreadLookup \/ ThreadInsert \/ Release \/ Collect \/ Reclaim

SpecThreads == Init /\ [][ThreadsNext]_vars

-----------------------------------------------------------------------------
(* Claims on the interning tables *)

\* the key of an object: (atom_type, value, type(value)) for an atom, the
\* children tuple for a compound
KeyOf(o) == IF o.atom THEN <<o.head, o.value, TypeOf(o.value)>> ELSE o.children

SameKey(a, b) == objs[a].atom = objs[b].atom /\ KeyOf(objs[a]) = KeyOf(objs[b])

\* C1: at no reachable state of single-threaded use (constructions, releases
\* and reclamation in any order) do two distinct live Expression objects have
\* the same key, so equal requests return the same object while it is referenced.
UniqueLiveKeys ==
    \A a \in alive : \A b \in alive : a # b => ~SameKey(a, b)

\* a key was constructed, its object deallocated and its entry reclaimed or
\* replaced, and the key constructed again: the one live object of the key
\* is not the first object created for it
ReinternedWitness ==
    \E a \in DOMAIN objs : \E b \in refs :
        /\ a \notin alive
        /\ objs[a].atom = objs[b].atom
        /\ KeyOf(objs[a]) = KeyOf(objs[b])
        /\ ~objs[b].atom

\* C2: with constructions made from several threads, no interleaving gives
\* two callers two distinct objects for one key (each lookup-or-insert acts
\* as one atomic unit).
ThreadsShareOneObjectPerKey ==
    \A a \in refs : \A b \in refs : a # b => ~SameKey(a, b)

\* C15: atom constructions with different keys never return one object: an
\* atom request that finds a previous object finds one with the requested
\* atom type, value and concrete type of the value, and every table entry
\* with a live referent stands under that referent's own key.
AtomsDistinctPerKey ==
    /\ \A o \in AtomRequests :
          Previous(o) # 0 =>
              /\ objs[Previous(o)].head = o.head
              /\ objs[Previous(o)].value = o.value
    /\ \A en \in all_atoms :
          en.obj \in alive => en.key = TableKey(objs[en.obj])

\* three atoms are referenced at once: two of one atom type whose values are
\* 1 and 1.0, and two of different atom types with the same value
DistinctAtomsWitness ==
    \E a \in refs : \E b \in refs : \E c \in refs :
        /\ objs[a].atom /\ objs[b].atom /\ objs[c].atom
        /\ objs[a].head = objs[b].head
        /\ objs[a].value = <<1, "int">> /\ objs[b].value = <<1, "float">>
        /\ objs[c].head # objs[a].head /\ objs[c].value = objs[a].value

====
